---- MODULE Spec2Model ----
(***************************************************************************)
(* Voice call service: a spoken conversation is turned into text, sent to  *)
(* an N8N webhook, and the reply is spoken back.  The repository holds     *)
(* three programs built on the same idea:                                  *)
(*   "main"     main.py / pipecat_bot.py  (web service, VoiceBot,          *)
(*              N8NLLMProcessor)                                           *)
(*   "cloud"    bot.py                    (N8NVoiceBot on Pipecat Cloud)   *)
(*   "realtime" voice-processing-service.py (RealTimeVoiceBot,             *)
(*              N8NLLMService, ElevenLabsTTS)                              *)
(* Text is a sequence of characters, so that str.strip() and len() are     *)
(* computed and not assumed.  Reply texts are atomic strings: only their   *)
(* identity and their emptiness matter.                                    *)
(***************************************************************************)
EXTENDS Integers, Sequences, FiniteSets, TLC

----------------------------------------------------------------------------
(* Bounds of the model *)

MaxLen == 3
MaxBots == 2
MaxTime == 1
MaxTurns == 3
MaxPipelines == 3

----------------------------------------------------------------------------
(* Texts *)

Programs == {"main", "cloud", "realtime"}

Whitespace == {" "}
Alphabet == {"u", "m", " "}

RECURSIVE SeqsUpTo(_)
SeqsUpTo(n) ==
    IF n = 0 THEN {<<>>}
    ELSE LET shorter == SeqsUpTo(n - 1)
         IN  shorter \cup {Append(s, c) : s \in {x \in shorter : Len(x) = n - 1}, c \in Alphabet}

Transcripts == SeqsUpTo(MaxLen)

(* What the callers of the sessions say: a filler, words *)
Said == {<<"u", "m">>, <<"u", "m", "m">>}

RECURSIVE lstrip(_)
lstrip(s) ==
    IF s = <<>> THEN s
    ELSE IF Head(s) \in Whitespace THEN lstrip(Tail(s)) ELSE s

RECURSIVE rstrip(_)
rstrip(s) ==
    IF s = <<>> THEN s
    ELSE IF s[Len(s)] \in Whitespace THEN rstrip(SubSeq(s, 1, Len(s) - 1)) ELSE s

strip(s) == rstrip(lstrip(s))

NonWhitespace(s) == Len(SelectSeq(s, LAMBDA c : c \notin Whitespace))

EmptyText == ""

DidntUnderstand == "I didn't understand that."
TechnicalDifficulties == "I'm having some technical difficulties. Please try again."
NoProperResponse == "I didn't get a proper response. Could you repeat that?"
TakingTooLong == "The response is taking too long. Let me try again."
TroubleKnowledgeBase == "I'm having trouble connecting to my knowledge base."
SomethingWentWrong == "Something went wrong. Please try again."
TroubleConnecting == "I'm sorry, I'm having trouble connecting right now."
Welcome == "Hi! I'm your AI assistant. How can I help you today?"

----------------------------------------------------------------------------
(* The webhook's answers *)

Fields == {"output", "text", "message"}

FieldReply == [output |-> "It's sunny.", text |-> "Sunny, says text.", message |-> "Sunny, says message."]

(* A JSON object: a function from the fields present to their values *)
Bodies ==
    UNION { {b \in [D -> {EmptyText} \cup {FieldReply[f] : f \in Fields}] :
                \A f \in D : b[f] \in {EmptyText, FieldReply[f]}} : D \in SUBSET Fields }

NoBody == [f \in {} |-> EmptyText]

(* What a POST to the webhook can end in *)
Responses ==
    [kind : {"timeout", "http_error", "connect_error", "bad_json"}, body : {NoBody}]
      \cup [kind : {"ok"}, body : Bodies]

(* What the webhook answers in the sessions: a timeout, an error status,   *)
(* an object with no field, an object with an output                       *)
Answers ==
    {r \in Responses :
        /\ r.kind \in {"timeout", "http_error", "ok"}
        /\ r.kind = "ok" => r.body \in {NoBody, [output |-> FieldReply["output"]]}}

(* dict.get(key, default) *)
get(d, key, default) == IF key \in DOMAIN d THEN d[key] ELSE default

Return(text) == [kind |-> "return", val |-> text]
Raise(what) == [kind |-> "raise", val |-> what]

----------------------------------------------------------------------------
(* The AI Backend Gateway of each program: the reply or the exception a    *)
(* webhook answer is turned into                                           *)

(* call_n8n_agent with an empty last default *)
call_n8n_agent_no_default(r) ==
    CASE r.kind = "ok" ->
            Return(get(r.body, "output",
                       get(r.body, "text",
                           get(r.body, "message", EmptyText))))
      [] r.kind = "timeout" -> Raise("AI processing timed out")
      [] r.kind = "http_error" -> Raise("AI service temporarily unavailable")
      [] r.kind = "connect_error" -> Raise("ConnectError")
      [] r.kind = "bad_json" -> Raise("JSONDecodeError")

(* main.py, pipecat_bot.py: N8NLLMProcessor.call_n8n_agent *)
call_n8n_agent(r) ==
    CASE r.kind = "ok" ->
            Return(get(r.body, "output",
                       get(r.body, "text",
                           get(r.body, "message", DidntUnderstand))))
      [] r.kind = "timeout" -> Raise("AI processing timed out")
      [] r.kind = "http_error" -> Raise("AI service temporarily unavailable")
      [] r.kind = "connect_error" -> Raise("ConnectError")
      [] r.kind = "bad_json" -> Raise("JSONDecodeError")

(* _call_n8n_webhook raising on a timeout, as call_n8n_agent does *)
call_n8n_webhook_raising(r) ==
    CASE r.kind = "ok" ->
            LET ai_response == get(r.body, "output", get(r.body, "text", EmptyText))
            IN  IF ai_response = EmptyText THEN Return(NoProperResponse)
                ELSE Return(ai_response)
      [] r.kind = "timeout" -> Raise("AI processing timed out")
      [] r.kind = "http_error" -> Return(TroubleKnowledgeBase)
      [] r.kind \in {"connect_error", "bad_json"} -> Return(SomethingWentWrong)

(* bot.py: N8NVoiceBot._call_n8n_webhook *)
call_n8n_webhook(r) ==
    CASE r.kind = "ok" ->
            LET ai_response == get(r.body, "output", get(r.body, "text", EmptyText))
            IN  IF ai_response = EmptyText THEN Return(NoProperResponse)
                ELSE Return(ai_response)
      [] r.kind = "timeout" -> Return(TakingTooLong)
      [] r.kind = "http_error" -> Return(TroubleKnowledgeBase)
      [] r.kind \in {"connect_error", "bad_json"} -> Return(SomethingWentWrong)

(* voice-processing-service.py: N8NLLMService.call_n8n *)
call_n8n(r) ==
    CASE r.kind = "ok" -> Return(get(r.body, "output", DidntUnderstand))
      [] r.kind = "http_error" -> Raise("HTTP 500")
      [] r.kind = "timeout" -> Raise("TimeoutError")
      [] r.kind = "connect_error" -> Raise("ClientConnectorError")
      [] r.kind = "bad_json" -> Raise("ContentTypeError")

Gateway(prog, r) ==
    CASE prog = "main" -> call_n8n_agent(r)
      [] prog = "cloud" -> call_n8n_webhook(r)
      [] prog = "realtime" -> call_n8n(r)

----------------------------------------------------------------------------
(* The transcription handler of each program *)

(* The test on the number of non-whitespace characters instead *)
process_frame_forwards_nonws(text) == NonWhitespace(text) > 2

(* main.py, pipecat_bot.py: user_text and len(user_text) > 2 *)
process_frame_forwards(text) ==
    LET user_text == strip(text) IN user_text # <<>> /\ Len(user_text) > 2

(* bot.py: not (len(text.strip()) < 3) *)
on_user_message_forwards(text) == ~(Len(strip(text)) < 3)

(* voice-processing-service.py: every TranscriptionFrame is sent on *)
llm_service_forwards(text) == TRUE

Forwards(prog, text) ==
    CASE prog = "main" -> process_frame_forwards(text)
      [] prog = "cloud" -> on_user_message_forwards(text)
      [] prog = "realtime" -> llm_service_forwards(text)

(* The text put in the request: main.py sends the stripped text *)
Message(prog, text) == IF prog = "main" THEN strip(text) ELSE text

Channel(prog) == IF prog = "realtime" THEN "voice_call_realtime" ELSE "voice_call"

Payload(prog, text, sid) ==
    [message |-> Message(prog, text), sessionId |-> sid, channel |-> Channel(prog)]

(* The except branch of the handler: the text spoken when the gateway raised *)
Apology(prog) == IF prog = "realtime" THEN TroubleConnecting ELSE TechnicalDifficulties

(* The except branch emitting the (unset) reply instead of the apology *)
ReplyText_no_fallback(prog, res) == IF res.kind = "raise" THEN EmptyText ELSE res.val

(* try: response = call(...); emit response   except Exception: emit apology *)
ReplyText(prog, res) == IF res.kind = "raise" THEN Apology(prog) ELSE res.val

----------------------------------------------------------------------------
(* State *)

VARIABLES
    program,        \* which of the three programs is deployed
    env,            \* the environment variables that are set
    now,            \* int(time.time())
    bots,           \* the bot objects of the process(es), by order of construction
    response_data,  \* main.py: the last response of create_room
    frame,          \* one turn, step by step: the frame handed to the handler
    stage,          \*   how far the handler is
    proc,           \*   the attributes of the processor object
    request,        \*   the payload posted to the webhook
    posts,          \*   how many times it was posted
    response,       \*   what the POST ended in
    result,         \*   what the gateway call returned or raised
    emitted         \*   the frames yielded / the texts said, in order

session_vars == <<program, env, now, bots, response_data>>
turn_vars == <<frame, stage, proc, request, posts, response, result, emitted>>
vars == <<program, env, now, bots, response_data, frame, stage, proc, request, posts, response, result, emitted>>

BotIds == 1..MaxBots

EnvNames == {"N8N_WEBHOOK_URL", "DEEPGRAM_API_KEY", "ELEVENLABS_API_KEY"}
(* Everything set, or one variable missing *)
Envs == {e \in [EnvNames -> BOOLEAN] : Cardinality({v \in EnvNames : ~e[v]}) <= 1}

NoId == <<>>
NoRequest == [message |-> <<>>, sessionId |-> NoId, channel |-> ""]
NoResponse == [kind |-> "none", body |-> NoBody]
NoResult == [kind |-> "none", val |-> EmptyText]
NoResponseData == [status |-> 0, session_id |-> NoId]

(* f"voice_{int(time.time())}" *)
voice_id(t) == <<"voice", t>>
(* f"pipecat_{asyncio.get_event_loop().time()}" *)
pipecat_id(t) == <<"pipecat", t>>

NoBot ==
    [exists |-> FALSE, session_id |-> NoId, is_running |-> FALSE, task |-> "none",
     pc |-> "idle", call |-> NoRequest, tf |-> EmptyText, audio |-> "none", log |-> <<>>,
     barged |-> FALSE, pipelines |-> 0]

(* The turns of a bot that are over, and the one under way *)
RECURSIVE Turns(_)
Turns(n) ==
    IF n = 0 THEN 0
    ELSE Turns(n - 1) + Len(bots[n].log) + (IF bots[n].pc = "idle" THEN 0 ELSE 1)

NextBot == Cardinality({b \in BotIds : bots[b].exists}) + 1

Listening(b) == bots[b].task = "running" /\ bots[b].pc = "idle" /\ Turns(MaxBots) < MaxTurns

SessionOnly == UNCHANGED turn_vars

----------------------------------------------------------------------------
(* main.py (and pipecat_bot.py, whose classes are the same) *)

(* The clock is read when a bot is constructed and when the realtime      *)
(* service takes its session_id; it is followed as long as one of them can *)
(* still happen                                                            *)
ClockIsRead ==
    \/ NextBot \in BotIds
    \/ \E b \in BotIds : bots[b].task = "running" /\ bots[b].session_id = NoId

Tick ==
    /\ now < MaxTime
    /\ ClockIsRead
    /\ now' = now + 1
    /\ UNCHANGED <<program, env, bots, response_data>>
    /\ SessionOnly

(* create_room and VoiceBot.__init__ without their test of N8N_WEBHOOK_URL *)
create_room_unchecked(b) ==
    /\ program = "main"
    /\ b = NextBot
    /\ bots' = [bots EXCEPT ![b] =
                  [NoBot EXCEPT !.exists = TRUE,
                                !.session_id = voice_id(now),
                                !.task = "scheduled"]]
    /\ response_data' = [status |-> 200, session_id |-> voice_id(now)]
    /\ UNCHANGED <<program, env, now>>
    /\ SessionOnly

(* POST /create-room: a VoiceBot with its N8NLLMProcessor, and a background *)
(* task that will run start_voice_session                                   *)
create_room(b) ==
    /\ program = "main"
    /\ b = NextBot
    /\ IF ~env["N8N_WEBHOOK_URL"]
       THEN /\ response_data' = [status |-> 500, session_id |-> NoId]
            /\ UNCHANGED bots
       ELSE /\ bots' = [bots EXCEPT ![b] =
                          [NoBot EXCEPT !.exists = TRUE,
                                        !.session_id = voice_id(now),
                                        !.task = "scheduled"]]
            /\ response_data' = [status |-> 200, session_id |-> voice_id(now)]
    /\ UNCHANGED <<program, env, now>>
    /\ SessionOnly

(* The background task starts: is_running is set and the pipeline runs *)
start_voice_session(b) ==
    /\ program = "main"
    /\ bots[b].task = "scheduled"
    /\ IF bots[b].is_running
       THEN bots' = [bots EXCEPT ![b].is_running = FALSE, ![b].task = "ended"]
       ELSE bots' = [bots EXCEPT ![b].is_running = TRUE, ![b].task = "running",
                                 ![b].pipelines = 1]
    /\ UNCHANGED <<program, env, now, response_data>>
    /\ SessionOnly

(* finally: self.is_running = False; whatever the pipeline was doing is over *)
Over(bot) ==
    [bot EXCEPT !.is_running = FALSE, !.task = "ended", !.pc = "idle",
                !.call = NoRequest, !.tf = EmptyText, !.barged = FALSE,
                !.pipelines = 0]

(* runner.run(task) returns: the call is over *)
runner_returns(b) ==
    /\ program = "main"
    /\ bots[b].task = "running"
    /\ bots' = [bots EXCEPT ![b] = Over(bots[b])]
    /\ UNCHANGED <<program, env, now, response_data>>
    /\ SessionOnly

(* The transport, the pipeline or the runner raises *)
runner_raises(b) ==
    /\ program = "main"
    /\ bots[b].task \in {"scheduled", "running"}
    /\ bots' = [bots EXCEPT ![b] = Over(bots[b])]
    /\ UNCHANGED <<program, env, now, response_data>>
    /\ SessionOnly

(* The handler with no try around the gateway call *)
process_frame_catches_nothing(res) == FALSE

(* An except clause that names the timeout only *)
process_frame_catches_timeouts(res) == res.kind = "raise" /\ res.val = "AI processing timed out"

(* except Exception in process_frame: which exceptions of the gateway are caught *)
process_frame_catches(res) == res.kind = "raise"

(* N8NLLMProcessor.process_frame on a TranscriptionFrame, up to the await *)
process_frame(b, t) ==
    /\ program = "main"
    /\ Listening(b)
    /\ IF process_frame_forwards(t)
       THEN bots' = [bots EXCEPT ![b].pc = "awaiting",
                                 ![b].call = Payload("main", t, bots[b].session_id)]
       ELSE UNCHANGED bots
    /\ UNCHANGED <<program, env, now, response_data>>
    /\ SessionOnly

(* The POST is over: call_n8n_agent returns or raises, process_frame yields *)
(* the TextFrame for the text-to-speech service                             *)
call_n8n_agent_done(b, r) ==
    /\ program = "main"
    /\ bots[b].pc = "awaiting"
    /\ LET res == call_n8n_agent(r)
       IN  IF res.kind = "raise" /\ ~process_frame_catches(res)
           THEN bots' = [bots EXCEPT ![b] = [Over(bots[b]) EXCEPT !.log = Append(@, "failed")]]
           ELSE bots' = [bots EXCEPT ![b].pc = "synth",
                                     ![b].call = NoRequest,
                                     ![b].tf = ReplyText("main", res),
                                     ![b].log = Append(@, IF res.kind = "raise" THEN "failed" ELSE "responded")]
    /\ UNCHANGED <<program, env, now, response_data>>
    /\ SessionOnly

(* ElevenLabsTTSService and transport.output(): the text is spoken *)
speak(b) ==
    /\ program = "main"
    /\ bots[b].pc = "synth"
    /\ bots' = [bots EXCEPT ![b].pc = "idle", ![b].tf = EmptyText]
    /\ UNCHANGED <<program, env, now, response_data>>
    /\ SessionOnly

(* A request to end session b.  create_app registers GET /health, GET /    *)
(* and POST /create-room and nothing else: the router answers any other    *)
(* request with 404, and no handler is run                                 *)
end_session(b) ==
    /\ program = "main"
    /\ bots[b].exists
    /\ response_data' = [status |-> 404, session_id |-> NoId]
    /\ UNCHANGED <<program, env, now, bots>>
    /\ SessionOnly

----------------------------------------------------------------------------
(* bot.py *)

(* bot = N8NVoiceBot(): no check of the environment *)
bot_init(b) ==
    /\ program = "cloud"
    /\ b = NextBot
    /\ bots' = [bots EXCEPT ![b] =
                  [NoBot EXCEPT !.exists = TRUE,
                                !.session_id = voice_id(now),
                                !.task = "scheduled"]]
    /\ UNCHANGED <<program, env, now, response_data>>
    /\ SessionOnly

on_start(b) ==
    /\ program = "cloud"
    /\ bots[b].task = "scheduled"
    /\ bots' = [bots EXCEPT ![b].task = "running"]
    /\ UNCHANGED <<program, env, now, response_data>>
    /\ SessionOnly

on_end(b) ==
    /\ program = "cloud"
    /\ bots[b].task = "running"
    /\ bots' = [bots EXCEPT ![b] = Over(bots[b])]
    /\ UNCHANGED <<program, env, now, response_data>>
    /\ SessionOnly

(* N8NVoiceBot.on_user_message, up to the await of the webhook *)
on_user_message(b, t) ==
    /\ program = "cloud"
    /\ Listening(b)
    /\ IF on_user_message_forwards(t)
       THEN bots' = [bots EXCEPT ![b].pc = "awaiting",
                                 ![b].call = Payload("cloud", t, bots[b].session_id)]
       ELSE UNCHANGED bots
    /\ UNCHANGED <<program, env, now, response_data>>
    /\ SessionOnly

(* What _call_n8n_webhook writes to the log for an answer *)
webhook_log(r) ==
    IF r.kind # "ok" THEN "failed"
    ELSE IF call_n8n_webhook(r).val = NoProperResponse THEN "empty" ELSE "responded"

(* client.post(self.n8n_webhook_url, ...): with no N8N_WEBHOOK_URL there   *)
(* is no URL to post to and httpx raises, whatever the webhook would say   *)
posted(e, r) ==
    IF e["N8N_WEBHOOK_URL"] THEN r ELSE [kind |-> "connect_error", body |-> NoBody]

(* _call_n8n_webhook returns; on_user_message goes on to say the text *)
call_n8n_webhook_done(b, r) ==
    /\ program = "cloud"
    /\ bots[b].pc = "awaiting"
    /\ bots' = [bots EXCEPT ![b].pc = "saying",
                            ![b].call = NoRequest,
                            ![b].tf = call_n8n_webhook(posted(env, r)).val,
                            ![b].log = Append(@, webhook_log(posted(env, r)))]
    /\ UNCHANGED <<program, env, now, response_data>>
    /\ SessionOnly

(* await self.say(ai_response) is done *)
say_done(b) ==
    /\ program = "cloud"
    /\ bots[b].pc = "saying"
    /\ bots' = [bots EXCEPT ![b].pc = "idle", ![b].tf = EmptyText]
    /\ UNCHANGED <<program, env, now, response_data>>
    /\ SessionOnly

(* await self.say(ai_response) raises: the except branch says the apology *)
say_raises(b) ==
    /\ program = "cloud"
    /\ bots[b].pc = "saying"
    /\ bots' = [bots EXCEPT ![b].pc = "apologising", ![b].tf = TechnicalDifficulties]
    /\ UNCHANGED <<program, env, now, response_data>>
    /\ SessionOnly

apology_done(b) ==
    /\ program = "cloud"
    /\ bots[b].pc = "apologising"
    /\ bots' = [bots EXCEPT ![b].pc = "idle", ![b].tf = EmptyText]
    /\ UNCHANGED <<program, env, now, response_data>>
    /\ SessionOnly

(* The say of the except branch raises as well: the exception leaves       *)
(* on_user_message; what the base class does with it is not in this        *)
(* repository: the bot goes on (on_error) or it is over                    *)
apology_raises(b) ==
    /\ program = "cloud"
    /\ bots[b].pc = "apologising"
    /\ \/ bots' = [bots EXCEPT ![b].pc = "idle", ![b].tf = EmptyText]
       \/ bots' = [bots EXCEPT ![b] = Over(bots[b])]
    /\ UNCHANGED <<program, env, now, response_data>>
    /\ SessionOnly

----------------------------------------------------------------------------
(* voice-processing-service.py *)

(* main(): every variable is required, then RealTimeVoiceBot().run() sets  *)
(* up the one pipeline of the process; N8NLLMService starts with no        *)
(* session_id                                                              *)
run(b) ==
    /\ program = "realtime"
    /\ b = NextBot
    /\ b = 1
    /\ \A v \in EnvNames : env[v]
    /\ bots' = [bots EXCEPT ![b] = [NoBot EXCEPT !.exists = TRUE, !.task = "running"]]
    /\ UNCHANGED <<program, env, now, response_data>>
    /\ SessionOnly

(* runner.run(task) returns or raises: the pipeline is over *)
run_returns(b) ==
    /\ program = "realtime"
    /\ bots[b].task = "running"
    /\ bots' = [bots EXCEPT ![b] = Over(bots[b])]
    /\ UNCHANGED <<program, env, now, response_data>>
    /\ SessionOnly

(* call_n8n taking a new session_id at every call *)
lazy_session_id_fresh(sid, t) == pipecat_id(t)

(* call_n8n: if not self.session_id: self.session_id = ... *)
lazy_session_id(sid, t) == IF sid = NoId THEN pipecat_id(t) ELSE sid

(* N8NLLMService.process_frame on a TranscriptionFrame, up to the POST *)
llm_process_frame(b, t) ==
    /\ program = "realtime"
    /\ Listening(b)
    /\ llm_service_forwards(t)
    /\ LET sid == lazy_session_id(bots[b].session_id, now)
       IN  bots' = [bots EXCEPT ![b].pc = "awaiting",
                                ![b].session_id = sid,
                                ![b].call = Payload("realtime", t, sid)]
    /\ UNCHANGED <<program, env, now, response_data>>
    /\ SessionOnly

(* call_n8n returns or raises; process_frame returns the TextFrame *)
call_n8n_done(b, r) ==
    /\ program = "realtime"
    /\ bots[b].pc = "awaiting"
    /\ LET res == call_n8n(r)
       IN  bots' = [bots EXCEPT ![b].pc = "synth",
                                ![b].call = NoRequest,
                                ![b].tf = ReplyText("realtime", res),
                                ![b].log = Append(@, IF res.kind = "raise" THEN "failed" ELSE "responded")]
    /\ UNCHANGED <<program, env, now, response_data>>
    /\ SessionOnly

(* ElevenLabsTTS.text_to_speech: the audio, or b"" when the status is not 200 *)
text_to_speech(status) == IF status = 200 THEN "audio" ELSE "empty"

(* ElevenLabsTTS.process_frame on the TextFrame: a TTSAudioRawFrame goes out *)
tts_process_frame(b, status) ==
    /\ program = "realtime"
    /\ bots[b].pc = "synth"
    /\ bots' = [bots EXCEPT ![b].pc = "idle", ![b].tf = EmptyText,
                            ![b].audio = text_to_speech(status),
                            ![b].barged = FALSE]
    /\ UNCHANGED <<program, env, now, response_data>>
    /\ SessionOnly

----------------------------------------------------------------------------
(* The caller starts to speak while the reply of the webhook is awaited *)

(* main.py hands PipelineParams(allow_interruptions=True) to its           *)
(* PipelineTask; voice-processing-service.py builds PipelineTask(pipeline) *)
(* with no parameters                                                      *)
allow_interruptions(prog) == prog = "main"

(* With interruptions allowed the pipeline cancels the handler that awaits *)
(* the webhook: the POST is abandoned with it and no frame is yielded.     *)
(* Without, the frame of the new speech waits behind the handler, which    *)
(* goes on to return its TextFrame as if nothing had been said.  bot.py is *)
(* told of whole messages only.                                            *)
user_started_speaking(b) ==
    /\ program \in {"main", "realtime"}
    /\ bots[b].task = "running"
    /\ bots[b].pc = "awaiting"
    /\ IF allow_interruptions(program)
       THEN bots' = [bots EXCEPT ![b].pc = "idle", ![b].call = NoRequest]
       ELSE /\ ~bots[b].barged
            /\ bots' = [bots EXCEPT ![b].barged = TRUE]
    /\ UNCHANGED <<program, env, now, response_data>>
    /\ SessionOnly

----------------------------------------------------------------------------
(* The programs at work *)

Init ==
    /\ program \in Programs
    /\ env \in Envs
    /\ now = 0
    /\ bots = [b \in BotIds |-> NoBot]
    /\ response_data = NoResponseData
    /\ frame = [type |-> "none", text |-> <<>>]
    /\ stage = "off"
    /\ proc = [webhook_url |-> "", session_id |-> NoId]
    /\ request = NoRequest
    /\ posts = 0
    /\ response = NoResponse
    /\ result = NoResult
    /\ emitted = <<>>

Next ==
    \/ Tick
    \/ \E b \in BotIds : create_room(b)
    \/ \E b \in BotIds : start_voice_session(b)
    \/ \E b \in BotIds : runner_returns(b)
    \/ \E b \in BotIds : runner_raises(b)
    \/ \E b \in BotIds, t \in Said : process_frame(b, t)
    \/ \E b \in BotIds, r \in Answers : call_n8n_agent_done(b, r)
    \/ \E b \in BotIds : speak(b)
    \/ \E b \in BotIds : end_session(b)
    \/ \E b \in BotIds : bot_init(b)
    \/ \E b \in BotIds : on_start(b)
    \/ \E b \in BotIds : on_end(b)
    \/ \E b \in BotIds, t \in Said : on_user_message(b, t)
    \/ \E b \in BotIds, r \in Answers : call_n8n_webhook_done(b, r)
    \/ \E b \in BotIds : say_done(b)
    \/ \E b \in BotIds : say_raises(b)
    \/ \E b \in BotIds : apology_done(b)
    \/ \E b \in BotIds : apology_raises(b)
    \/ \E b \in BotIds : run(b)
    \/ \E b \in BotIds : run_returns(b)
    \/ \E b \in BotIds, t \in Said : llm_process_frame(b, t)
    \/ \E b \in BotIds, r \in Answers : call_n8n_done(b, r)
    \/ \E b \in BotIds, status \in {200, 500} : tts_process_frame(b, status)
    \/ \E b \in BotIds : user_started_speaking(b)

Spec == Init /\ [][Next]_vars

(* The deployments in which every variable is set *)
InitConfigured == Init /\ \A v \in EnvNames : env[v]

SpecConfigured == InitConfigured /\ [][Next]_vars

(* main.py as a service, its speech keys set, the webhook URL set or not *)
InitService ==
    /\ Init
    /\ program = "main"
    /\ env["DEEPGRAM_API_KEY"]
    /\ env["ELEVENLABS_API_KEY"]

NextService ==
    \/ Tick
    \/ \E b \in BotIds : create_room(b)
    \/ \E b \in BotIds : start_voice_session(b)
    \/ \E b \in BotIds : runner_returns(b)
    \/ \E b \in BotIds : runner_raises(b)
    \/ \E b \in BotIds, t \in Said : process_frame(b, t)
    \/ \E b \in BotIds, r \in Answers : call_n8n_agent_done(b, r)
    \/ \E b \in BotIds : speak(b)
    \/ \E b \in BotIds : end_session(b)
    \/ \E b \in BotIds : user_started_speaking(b)

SpecService == InitService /\ [][NextService]_vars

(* The class VoiceBot of main.py and pipecat_bot.py under any sequence of  *)
(* calls of start_voice_session on one object                              *)

(* VoiceBot(...): the constructor *)
VoiceBot_init(b) ==
    /\ program = "main"
    /\ b = NextBot
    /\ bots' = [bots EXCEPT ![b] =
                  [NoBot EXCEPT !.exists = TRUE, !.session_id = voice_id(now)]]
    /\ UNCHANGED <<program, env, now, response_data>>
    /\ SessionOnly

(* A call of start_voice_session, up to its first suspension.  With        *)
(* is_running set it returns at once, through the finally clause; without, *)
(* it sets is_running and awaits runner.run(task), unless the transport or *)
(* the pipeline raises before, through the finally clause as well          *)
start_voice_session_called(b) ==
    /\ program = "main"
    /\ bots[b].exists
    /\ IF bots[b].is_running
       THEN bots' = [bots EXCEPT ![b].is_running = FALSE]
       ELSE \/ /\ bots[b].pipelines < MaxPipelines
               /\ bots' = [bots EXCEPT ![b].is_running = TRUE, ![b].pipelines = @ + 1]
            \/ bots' = [bots EXCEPT ![b].is_running = FALSE]
    /\ UNCHANGED <<program, env, now, response_data>>
    /\ SessionOnly

(* runner.run(task) of one of the calls returns or raises: finally *)
pipeline_ends(b) ==
    /\ program = "main"
    /\ bots[b].pipelines > 0
    /\ bots' = [bots EXCEPT ![b].is_running = FALSE, ![b].pipelines = @ - 1]
    /\ UNCHANGED <<program, env, now, response_data>>
    /\ SessionOnly

InitVoiceBot == InitConfigured /\ program = "main"

NextVoiceBot ==
    \/ Tick
    \/ \E b \in BotIds : VoiceBot_init(b)
    \/ \E b \in BotIds : start_voice_session_called(b)
    \/ \E b \in BotIds : pipeline_ends(b)

SpecVoiceBot == InitVoiceBot /\ [][NextVoiceBot]_vars

(* The POST that ends because the client gave up waiting *)
TimedOut == [kind |-> "timeout", body |-> NoBody]

(* What is sure to happen once it can.  The task that create_room hands to *)
(* asyncio runs.  The clients of main.py and bot.py are built with         *)
(* httpx.AsyncClient(timeout=20.0): their POST is over after 20 seconds at *)
(* the latest.  What the handler yields is spoken by the pipeline's        *)
(* text-to-speech service, and a say of bot.py ends or raises.  Nothing is *)
(* sure of what the caller, the webhook or the runner do, nor of the two   *)
(* POSTs of voice-processing-service.py, whose aiohttp.ClientSession() is  *)
(* given no timeout.                                                       *)
Fairness ==
    \A b \in BotIds :
        /\ WF_vars(start_voice_session(b))
        /\ WF_vars(call_n8n_agent_done(b, TimedOut))
        /\ WF_vars(speak(b))
        /\ WF_vars(on_start(b))
        /\ WF_vars(call_n8n_webhook_done(b, TimedOut))
        /\ WF_vars(say_done(b) \/ say_raises(b))
        /\ WF_vars(apology_done(b) \/ apology_raises(b))

SpecFair == InitConfigured /\ [][Next]_vars /\ Fairness

----------------------------------------------------------------------------
(* One turn of one processor, step by step: every frame the handler can be *)
(* handed and every answer of the webhook, with the request, the gateway's *)
(* result and the frames that come out kept in the state                   *)

TextFrame(text) == [type |-> "TextFrame", text |-> text]
TranscriptionFrame(text) == [type |-> "TranscriptionFrame", text |-> text]
AudioRawFrame == [type |-> "AudioRawFrame", text |-> <<>>]

Frames == {TranscriptionFrame(t) : t \in Transcripts} \cup {AudioRawFrame}

AllSet == [v \in EnvNames |-> TRUE]

TurnInit ==
    /\ program \in Programs
    /\ env = AllSet
    /\ now = 0
    /\ bots = [b \in BotIds |-> NoBot]
    /\ response_data = NoResponseData
    /\ frame \in (IF program = "cloud" THEN Frames \ {AudioRawFrame} ELSE Frames)
    /\ stage = "start"
    /\ proc = [webhook_url |-> "url",
               session_id |-> IF program = "realtime" THEN NoId ELSE voice_id(now)]
    /\ request = NoRequest
    /\ posts = 0
    /\ response = NoResponse
    /\ result = NoResult
    /\ emitted = <<>>

(* A frame that is not a transcription being dropped *)
pass_through_nothing(f) == <<>>

(* else: yield frame (main.py); return frame (voice-processing-service.py) *)
pass_through(f) == <<f>>

(* The handler yielding the user's text before it awaits the webhook *)
yielded_before_call_echo(text) == <<TextFrame(text)>>

(* What the handler yields between its length test and the await of the    *)
(* gateway call: the only yield of a TextFrame comes after the await       *)
yielded_before_call(text) == <<>>

(* The handler runs up to its first await: process_frame (main.py,         *)
(* voice-processing-service.py), on_user_message (bot.py)                  *)
handle_frame ==
    /\ stage = "start"
    /\ IF frame.type # "TranscriptionFrame"
       THEN /\ emitted' = pass_through(frame)
            /\ stage' = "done"
            /\ UNCHANGED <<proc, request, posts>>
       ELSE IF Forwards(program, frame.text)
       THEN LET sid == IF program = "realtime"
                       THEN lazy_session_id(proc.session_id, now)
                       ELSE proc.session_id
            IN  /\ proc' = [proc EXCEPT !.session_id = sid]
                /\ request' = Payload(program, frame.text, sid)
                /\ posts' = posts + 1
                /\ stage' = "awaiting"
                /\ emitted' = emitted \o yielded_before_call(frame.text)
       ELSE /\ stage' = "done"
            /\ UNCHANGED <<proc, request, posts, emitted>>
    /\ UNCHANGED <<frame, response, result>>
    /\ UNCHANGED session_vars

(* The gateway posting again when the POST timed out *)
after_post_retry(r) == IF r.kind = "timeout" THEN "awaiting" ELSE "responded"

(* What the gateway does when its POST is over: there is no loop around    *)
(* client.post, every except clause leaves the call (raise, return)        *)
after_post(r) == "responded"

(* The POST ends *)
post_ends(r) ==
    /\ stage = "awaiting"
    /\ response' = r
    /\ stage' = after_post(r)
    /\ posts' = IF after_post(r) = "awaiting" THEN posts + 1 ELSE posts
    /\ UNCHANGED <<frame, proc, request, result, emitted>>
    /\ UNCHANGED session_vars

(* The gateway call returns or raises and the handler goes on: main.py and *)
(* voice-processing-service.py emit the TextFrame, bot.py goes on to say   *)
handler_resumes ==
    /\ stage = "responded"
    /\ LET res == Gateway(program, response)
       IN  /\ result' = res
           /\ IF program = "cloud"
              THEN stage' = "saying" /\ UNCHANGED emitted
              ELSE IF program = "main" /\ res.kind = "raise" /\ ~process_frame_catches(res)
              THEN stage' = "raised" /\ UNCHANGED emitted
              ELSE stage' = "done" /\ emitted' = Append(emitted, TextFrame(ReplyText(program, res)))
    /\ UNCHANGED <<frame, proc, request, posts, response>>
    /\ UNCHANGED session_vars

(* bot.py: await self.say(ai_response) ends *)
say_ends(ok) ==
    /\ stage = "saying"
    /\ IF ok
       THEN stage' = "done" /\ emitted' = Append(emitted, TextFrame(result.val))
       ELSE stage' = "apologising" /\ UNCHANGED emitted
    /\ UNCHANGED <<frame, proc, request, posts, response, result>>
    /\ UNCHANGED session_vars

(* bot.py: the say of the except branch ends *)
apology_ends(ok) ==
    /\ stage = "apologising"
    /\ IF ok
       THEN stage' = "done" /\ emitted' = Append(emitted, TextFrame(TechnicalDifficulties))
       ELSE stage' = "raised" /\ UNCHANGED emitted
    /\ UNCHANGED <<frame, proc, request, posts, response, result>>
    /\ UNCHANGED session_vars

TurnNext ==
    \/ handle_frame
    \/ \E r \in Responses : post_ends(r)
    \/ handler_resumes
    \/ \E ok \in BOOLEAN : say_ends(ok)
    \/ \E ok \in BOOLEAN : apology_ends(ok)

SpecTurn == TurnInit /\ [][TurnNext]_vars

----------------------------------------------------------------------------
(* Properties *)

Calling(b) == bots[b].call # NoRequest

(* C1: at most one turn is in flight per session: no two outstanding       *)
(* webhook calls carry the same sessionId at the same time.                *)
C1_OneCallPerSessionId ==
    \A a, b \in BotIds :
        (a # b /\ Calling(a) /\ Calling(b)) => bots[a].call.sessionId # bots[b].call.sessionId

Returned == stage \in {"done", "saying", "apologising", "raised"} /\ result # NoResult

(* C2: a gateway call returns a non-empty reply or raises; for no answer   *)
(* of the webhook does it return an empty string.                          *)
C2_ReplyOrFailure ==
    Returned => (result.kind = "raise" \/ (result.kind = "return" /\ result.val # EmptyText))

Handled == stage # "start" /\ frame.type = "TranscriptionFrame"

(* C3: a transcript shorter than the minimum length (here: fewer than 3    *)
(* characters in all, short under every way of counting) triggers no       *)
(* webhook request and no utterance, in every program.                     *)
C3_ShortNeverCalls ==
    (Handled /\ Len(frame.text) < 3) => (request = NoRequest /\ emitted = <<>>)

(* The characters from the first to the last non-whitespace character *)
Span(s) ==
    LET at == {i \in 1..Len(s) : s[i] \notin Whitespace}
    IN  IF at = {} THEN 0
        ELSE (CHOOSE i \in at : \A j \in at : j <= i) - (CHOOSE i \in at : \A j \in at : i <= j) + 1

Filtering == Handled /\ program \in {"main", "cloud"}

(* C4 as claimed: the test counts non-whitespace characters: fewer than 3  *)
(* is discarded, 3 or more is forwarded.                                   *)
C4_CountsNonWhitespace ==
    Filtering => ((request # NoRequest) <=> (NonWhitespace(frame.text) >= 3))

(* C4 amended: main.py and bot.py count the characters from the first to   *)
(* the last non-whitespace character, whitespace in between included: a    *)
(* transcript is forwarded exactly when that count is 3 or more, and a     *)
(* discarded one ends the turn with no request and no utterance.           *)
C4_CountsStrippedLength ==
    Filtering =>
        /\ (request # NoRequest) <=> (Span(frame.text) >= 3)
        /\ Span(frame.text) < 3 => (stage = "done" /\ emitted = <<>>)

(* Two letters around a space: forwarded *)
C4_Witness ==
    /\ program = "main"
    /\ frame = TranscriptionFrame(<<"u", " ", "m">>)
    /\ stage = "awaiting"
    /\ request.message = <<"u", " ", "m">>

Priority == <<"output", "text", "message">>

NonEmptyFields(body) == {i \in 1..Len(Priority) : Priority[i] \in DOMAIN body /\ body[Priority[i]] # EmptyText}

FirstNonEmpty(body) ==
    body[Priority[CHOOSE i \in NonEmptyFields(body) : \A j \in NonEmptyFields(body) : i <= j]]

(* C5: the reply is the value of the first of output, text, message that   *)
(* is present and not empty; an empty field is passed over.                *)
C5_FirstNonEmptyField ==
    (Returned /\ response.kind = "ok" /\ NonEmptyFields(response.body) # {})
        => result = Return(FirstNonEmpty(response.body))

NoRecognizedField == response.kind = "ok" /\ DOMAIN response.body \cap Fields = {}

CallFailed == response.kind \in {"timeout", "http_error", "connect_error", "bad_json"}

(* The text the handler hands to synthesis: the TextFrame it yields        *)
(* (main.py, voice-processing-service.py), the text it says (bot.py)       *)
Handed == IF program = "cloud" THEN result.val ELSE emitted[1].text

HandedOn == Returned /\ (program = "cloud" \/ stage = "done")

C8_TimeoutApologyAndFault ==
    [][(stage = "responded" /\ response.kind = "timeout") =>
          /\ (IF program = "cloud" THEN result'.val ELSE emitted'[1].text) = Apology(program)
          /\ proc' # proc]_vars

RECURSIVE TrailingFailures(_)
TrailingFailures(log) ==
    IF log = <<>> THEN 0
    ELSE LET last == log[Len(log)]
             rest == SubSeq(log, 1, Len(log) - 1)
         IN  IF last = "failed" THEN 1 + TrailingFailures(rest) ELSE 0

(* C9: after three consecutive failed AI calls the session is over: it is  *)
(* not still running.                                                      *)
C9_ThreeFailuresTerminate ==
    \A b \in BotIds : TrailingFailures(bots[b].log) >= 3 => bots[b].task # "running"

FailsNow(b) == bots'[b].log = Append(bots[b].log, "failed")

(* C10: a failed AI call does not end the session: the step that handles   *)
(* the failure leaves the session running, hands a non-empty apology to    *)
(* synthesis, and the handler is on its way back to the next transcript.   *)
C10_FailureIsSwallowed ==
    [][\A b \in BotIds : FailsNow(b) =>
          /\ bots'[b].task = "running"
          /\ bots'[b].is_running = bots[b].is_running
          /\ bots'[b].pc \in {"synth", "saying"}
          /\ bots'[b].tf # EmptyText
          /\ bots'[b].call = NoRequest]_vars

(* A session that failed a call and answered the next transcript *)
C10_Witness ==
    \E b \in BotIds :
        /\ bots[b].task = "running"
        /\ Len(bots[b].log) >= 2
        /\ bots[b].log[1] = "failed"
        /\ bots[b].log[2] = "responded"

(* A step of the caller's new speech: the session was awaiting the reply   *)
(* and the step is neither the end of the call nor the end of the session  *)
BargesIn(b) ==
    /\ bots[b].pc = "awaiting"
    /\ bots'[b] # bots[b]
    /\ bots'[b].task = "running"
    /\ bots'[b].log = bots[b].log

(* C11: speech that starts while the reply is awaited takes the session    *)
(* out of the wait at once, with the outstanding call dropped, and the     *)
(* reply of that call is never handed to synthesis afterwards.             *)
C11_BargeInDiscardsReply ==
    [][\A b \in BotIds :
          /\ BargesIn(b) => (bots'[b].pc = "idle" /\ bots'[b].call = NoRequest)
          /\ bots[b].barged => bots'[b].pc # "synth"]_vars

(* The sessions that exist now: created and not over *)
Open(b) == bots[b].exists /\ bots[b].task \in {"scheduled", "running"}

(* C12: no two sessions that exist at the same time carry the same session *)
(* identifier, however close together they were created.                   *)
C12_FreshSessionIds ==
    \A a, b \in BotIds :
        (a # b /\ Open(a) /\ Open(b) /\ bots[a].session_id # NoId)
            => bots[a].session_id # bots[b].session_id

(* C13: every request posted to the webhook is the transcript's text, the  *)
(* session's identifier and the channel tag "voice_call", in every         *)
(* program.                                                                *)
C13_FixedShapePayload ==
    request # NoRequest =>
        request = [message |-> frame.text, sessionId |-> proc.session_id, channel |-> "voice_call"]

(* C15: a session exists, and its pipeline is started, only when every     *)
(* required setting (webhook URL, speech-to-text key, text-to-speech key)  *)
(* is present: with one missing the creation fails and nothing is made.    *)
C15_NoSessionWithoutConfiguration ==
    \A b \in BotIds : bots[b].exists => \A v \in EnvNames : env[v]

(* C16: the number of sessions open at once stays within a configured      *)
(* bound.  Whatever bound is configured below the number of sessions the   *)
(* model can create, a create request at the bound is refused, so that     *)
(* number is never reached.                                                *)
C16_OpenSessionsBounded ==
    Cardinality({b \in BotIds : Open(b)}) < MaxBots

(* C14: no automatic retry: a forwarded transcript is posted to the        *)
(* webhook once, whether the POST succeeds, times out or fails, and a      *)
(* transcript that is not forwarded is never posted.                       *)
C14_NoRetry ==
    /\ posts <= 1
    /\ posts = (IF request # NoRequest THEN 1 ELSE 0)
    /\ stage \in {"responded", "saying", "apologising", "raised"} => posts = 1

(* bot.py has said "Let me try again." after a timeout, and posted once *)
C14_Witness ==
    /\ program = "cloud"
    /\ response.kind = "timeout"
    /\ stage = "done"
    /\ emitted = <<TextFrame(TakingTooLong)>>
    /\ posts = 1

OpenCount == Cardinality({b \in BotIds : Open(b)})

(* C17: a request to end an open session succeeds and removes it, and the  *)
(* number of open sessions goes down by exactly one; a request to end a    *)
(* session that is already over is answered not-found and changes nothing. *)
C17_EndRemovesExactlyOnce ==
    [][\A b \in BotIds : end_session(b) =>
          IF Open(b)
          THEN /\ response_data'.status = 200
               /\ bots'[b].task = "ended"
               /\ OpenCount' = OpenCount - 1
          ELSE /\ response_data'.status = 404
               /\ bots' = bots]_vars

Idle(b) == bots[b].task = "running" /\ bots[b].pc = "idle"

(* C18: a session left without activity is removed: no session stays       *)
(* running with nothing said and nothing answered for ever (for longer     *)
(* than every threshold), whatever its caller does.                        *)
C18_IdleSessionIsReaped ==
    \A b \in BotIds : Idle(b) ~> ~Idle(b)

(* The turn is over and what went out for it is not the empty audio *)
Heard(b) == bots[b].pc = "idle" /\ bots[b].audio # "empty"

(* The step that ends the synthesis of a turn of a session that goes on *)
Synthesized(b) ==
    /\ bots[b].pc \in {"synth", "saying", "apologising"}
    /\ bots'[b].pc = "idle"
    /\ bots'[b].task = "running"

(* C19: the caller always hears something: a turn that awaits the reply or *)
(* the synthesis does not stay there for ever, and what its synthesis ends *)
(* in is an utterance, not the empty audio, unless the session ends.       *)
C19_CallerHearsSomething ==
    /\ [][\A b \in BotIds : Synthesized(b) => bots'[b].audio # "empty"]_vars
    /\ \A b \in BotIds :
          (bots[b].pc \in {"awaiting", "synth", "saying", "apologising"})
              ~> (Heard(b) \/ bots[b].task # "running")

C21_NoEmptyAudio ==
    \A b \in BotIds : bots[b].audio # "empty"

(* A text has been handed to synthesis, or is being said *)
TextOut ==
    \/ \E i \in 1..Len(emitted) : emitted[i].type = "TextFrame"
    \/ stage \in {"saying", "apologising"}

(* C22: the stages of a turn come in order: the webhook is called only     *)
(* with the transcript of the turn in hand, the call is over (answered or  *)
(* failed) before the gateway has a result, and no text goes to synthesis  *)
(* before the gateway has a result.                                        *)
C22_StagesInOrder ==
    /\ request # NoRequest =>
          /\ frame.type = "TranscriptionFrame"
          /\ stage # "start"
          /\ strip(request.message) = strip(frame.text)
    /\ response # NoResponse => request # NoRequest
    /\ result # NoResult => response # NoResponse
    /\ TextOut => result # NoResult

(* "umm" was answered {"output": "It's sunny."} and the reply was yielded *)
C22_Witness ==
    /\ program = "main"
    /\ frame = TranscriptionFrame(<<"u", "m", "m">>)
    /\ response = [kind |-> "ok", body |-> [output |-> "It's sunny."]]
    /\ stage = "done"
    /\ emitted = <<TextFrame("It's sunny.")>>

(* C24: N8NLLMProcessor.process_frame, handed a TranscriptionFrame, emits   *)
(* exactly one TextFrame when the transcript is forwarded (the reply the   *)
(* gateway returned, or the apology when it raised), nothing when the      *)
(* transcript is too short, and never the TranscriptionFrame; no exception *)
(* of the gateway leaves it.                                               *)
C24_OneTextFramePerTranscript ==
    (program = "main" /\ frame.type = "TranscriptionFrame") =>
        /\ \A i \in 1..Len(emitted) : emitted[i].type = "TextFrame"
        /\ stage # "raised"
        /\ stage # "done" => emitted = <<>>
        /\ stage = "done" =>
              IF Len(strip(frame.text)) > 2
              THEN /\ Len(emitted) = 1
                   /\ emitted[1].text =
                         (IF result.kind = "raise" THEN TechnicalDifficulties ELSE result.val)
              ELSE emitted = <<>> /\ request = NoRequest

(* The webhook answered "umm" with an error status: the apology, alone *)
C24_Witness ==
    /\ program = "main"
    /\ frame = TranscriptionFrame(<<"u", "m", "m">>)
    /\ response.kind = "http_error"
    /\ stage = "done"
    /\ emitted = <<TextFrame(TechnicalDifficulties)>>

(* C25: a frame that is not a TranscriptionFrame passes through the        *)
(* processor unchanged: the handler emits exactly that frame and is done,  *)
(* no request is posted, and the processor's attributes (its session       *)
(* identifier) stay what they were.                                        *)
C25_OtherFramesPassThrough ==
    [][frame.type # "TranscriptionFrame" =>
          /\ stage = "start" => (stage' = "done" /\ emitted' = <<frame>>)
          /\ request' = NoRequest
          /\ posts' = 0
          /\ proc' = proc]_vars

(* An audio frame went through the realtime service, which has no          *)
(* session identifier yet                                                  *)
C25_Witness ==
    /\ program = "realtime"
    /\ frame = AudioRawFrame
    /\ stage = "done"
    /\ emitted = <<AudioRawFrame>>
    /\ proc.session_id = NoId

(* bot.py: the webhook call of the turn returned a text that is not empty *)
WebhookReturned == Returned => (result.kind = "return" /\ result.val # EmptyText)

(* C27 as claimed: in bot.py _call_n8n_webhook never raises and returns a  *)
(* text that is not empty for every outcome, and on_user_message has       *)
(* spoken exactly one utterance for every forwarded message when it is     *)
(* over.                                                                   *)
C27_OneUtterancePerMessage ==
    program = "cloud" =>
        /\ WebhookReturned
        /\ (request # NoRequest /\ stage \in {"done", "raised"}) => Len(emitted) = 1

(* C27 amended: in bot.py _call_n8n_webhook never raises and returns a     *)
(* text that is not empty for every outcome; the apology branch of         *)
(* on_user_message is entered only from a say that failed; a forwarded     *)
(* message whose handler returns has been answered with exactly one        *)
(* utterance (the returned text, or the apology after a failed say); and   *)
(* when the say of the apology fails too the exception leaves the handler  *)
(* with nothing spoken.                                                    *)
C27_OneUtteranceUnlessSayFails ==
    /\ [](program = "cloud" =>
            /\ WebhookReturned
            /\ (request # NoRequest /\ stage = "done") =>
                  /\ Len(emitted) = 1
                  /\ emitted[1].text \in {result.val, TechnicalDifficulties}
            /\ stage = "raised" => emitted = <<>>)
    /\ [][program = "cloud" =>
            /\ stage' = "apologising" => stage \in {"saying", "apologising"}
            /\ stage' = "raised" => stage \in {"apologising", "raised"}
            /\ (stage = "responded" /\ stage' # stage) => stage' = "saying"]_vars

(* The reply was returned, its say failed, and the apology was said *)
C27_Witness ==
    /\ program = "cloud"
    /\ result = Return("It's sunny.")
    /\ stage = "done"
    /\ emitted = <<TextFrame(TechnicalDifficulties)>>

(* C26: the session identifier of a processor does not change once it is  *)
(* set: every request of the processor carries it, first and later ones,   *)
(* also where it is taken lazily at the first call, and it is the          *)
(* session_id that create_room answered with for that session.             *)
C26_SessionIdIsStable ==
    /\ [](\A b \in BotIds :
            Calling(b) => (bots[b].session_id # NoId
                             /\ bots[b].call.sessionId = bots[b].session_id))
    /\ [][\A b \in BotIds :
            /\ bots[b].session_id # NoId => bots'[b].session_id = bots[b].session_id
            /\ create_room(b) => (bots'[b].session_id # NoId
                                    /\ response_data'.session_id = bots'[b].session_id)]_vars

(* The realtime service took its identifier at its first call and posts    *)
(* with it again a second later                                            *)
C26_Witness ==
    /\ program = "realtime"
    /\ now = 1
    /\ bots[1].session_id = pipecat_id(0)
    /\ Len(bots[1].log) >= 1
    /\ Calling(1)
    /\ bots[1].call.sessionId = pipecat_id(0)

(* C28: with no webhook URL configured, create_room answers with an error  *)
(* and changes nothing: no VoiceBot exists, no session task is scheduled   *)
(* and no session identifier was handed out, however often it is called.   *)
C28_NoUrlCreatesNothing ==
    (program = "main" /\ ~env["N8N_WEBHOOK_URL"]) =>
        /\ \A b \in BotIds : bots[b] = NoBot
        /\ response_data \in {NoResponseData, [status |-> 500, session_id |-> NoId]}

(* create_room has answered 500 *)
C28_Witness ==
    /\ program = "main"
    /\ ~env["N8N_WEBHOOK_URL"]
    /\ response_data = [status |-> 500, session_id |-> NoId]
    /\ \A b \in BotIds : ~bots[b].exists

(* C23: a VoiceBot runs at most one pipeline at a time, and is_running is  *)
(* true whenever a pipeline of the bot is running, whatever calls of       *)
(* start_voice_session were made.                                          *)
C23_OnePipelinePerBot ==
    \A b \in BotIds :
        /\ bots[b].pipelines <= 1
        /\ bots[b].pipelines >= 1 => bots[b].is_running

====
